---- MODULE Spec2Model ----
(***************************************************************************)
(* A model of package httpdebug (src/httpdebug/httpdebug.go): CurlTransport, *)
(* an http.RoundTripper that renders each outgoing request as a curl       *)
(* command, redacts secrets, logs the command and forwards the request.    *)
(*                                                                         *)
(* Go strings are TLA+ strings (bytes of printable ASCII).  The nil error, *)
(* the nil response and the nil RoundTripper are the empty string; a nil   *)
(* *url.URL and a nil Body are records whose nil/present flag says so.     *)
(***************************************************************************)
EXTENDS Integers, Sequences, FiniteSets, TLC

VARIABLES
    mode,       \* which input pools this run draws from
    opts,       \* per CurlTransport: the options given to New
    built,      \* per CurlTransport: whether New has returned it
    tr,         \* per CurlTransport: its fields (the heap object)
    tr0,        \* per CurlTransport: its fields as New returned them
    req,        \* per call: the *http.Request the caller passed
    req0,       \* per call: that request as it was when passed
    stack,      \* per call: the RoundTrip frames, outermost first
    result,     \* per call: what the outermost RoundTrip returned
    delivered,  \* per call: what the final (non-Curl) RoundTripper received
    events,     \* per call: what happened, in order
    sink        \* the strings handed to logger, in order

vars == <<mode, opts, built, tr, tr0, req, req0, stack, result, delivered, events, sink>>

-----------------------------------------------------------------------------
(* Bounds of the model.                                                    *)

MaxOpts == 2
NumCalls == 2
MaxHeaders == 2
MaxParams == 2

-----------------------------------------------------------------------------
(* Strings: bytes, order, case folding.                                    *)

\* The printable ASCII characters in byte order, from code 32.  The place of
\* code 96 (the backquote, which no string of the model holds) is kept by a tab.
Ascii == " !\"#$%&'()*+,-./0123456789:;<=>?@ABCDEFGHIJKLMNOPQRSTUVWXYZ[\\]^_\tabcdefghijklmnopqrstuvwxyz{|}~"

CharAt(s, i) == SubSeq(s, i, i)

\* the byte of each character
OrdTable ==
    [c \in {CharAt(Ascii, i) : i \in 1..Len(Ascii)} |->
        31 + (CHOOSE i \in 1..Len(Ascii) : CharAt(Ascii, i) = c)]

Ord(c) == OrdTable[c]

Lower(c) == IF Ord(c) >= 65 /\ Ord(c) <= 90 THEN CharAt(Ascii, Ord(c) + 32 - 31) ELSE c

\* strings.EqualFold, on ASCII
EqualFold(s, t) ==
    /\ Len(s) = Len(t)
    /\ \A i \in 1..Len(s) : Lower(CharAt(s, i)) = Lower(CharAt(t, i))

\* Go's < on strings: bytewise lexicographic
RECURSIVE StrLess(_, _)
StrLess(s, t) ==
    IF t = "" THEN FALSE
    ELSE IF s = "" THEN TRUE
    ELSE IF Head(s) = Head(t) THEN StrLess(Tail(s), Tail(t))
    ELSE Ord(Head(s)) < Ord(Head(t))

\* index of the first occurrence of character c in s, 0 if none
IndexOf(s, c) ==
    IF \E i \in 1..Len(s) : CharAt(s, i) = c
    THEN CHOOSE i \in 1..Len(s) : CharAt(s, i) = c /\ \A j \in 1..(i-1) : CharAt(s, j) # c
    ELSE 0

\* strings.Contains
Contains(s, sub) ==
    \E i \in 1..(Len(s) - Len(sub) + 1) : SubSeq(s, i, i + Len(sub) - 1) = sub

\* strings.Join
RECURSIVE Join(_, _)
Join(elems, sep) ==
    IF Len(elems) = 0 THEN ""
    ELSE IF Len(elems) = 1 THEN elems[1]
    ELSE elems[1] \o sep \o Join(Tail(elems), sep)

RECURSIVE InsertSorted(_, _)
InsertSorted(sorted, x) ==
    IF Len(sorted) = 0 THEN <<x>>
    ELSE IF StrLess(x, Head(sorted)) THEN <<x>> \o sorted
    ELSE <<Head(sorted)>> \o InsertSorted(Tail(sorted), x)

SortStringsUnsorted(a) == a

\* sort.Strings
RECURSIVE SortStrings(_)
SortStrings(a) ==
    IF Len(a) = 0 THEN <<>>
    ELSE InsertSorted(SortStrings(SubSeq(a, 1, Len(a) - 1)), a[Len(a)])

\* the orders in which a Go map with key set S may be ranged over
Perms(S) ==
    {p \in [1..Cardinality(S) -> S] : \A i, j \in 1..Cardinality(S) : p[i] = p[j] => i = j}

escapeSingleQuoteIdentity(s) == s

\* escapeSingleQuote: strings.ReplaceAll(s, "'", `\'`)
RECURSIVE escapeSingleQuote(_)
escapeSingleQuote(s) ==
    IF s = "" THEN ""
    ELSE (IF Head(s) = "'" THEN "\\'" ELSE Head(s)) \o escapeSingleQuote(Tail(s))

-----------------------------------------------------------------------------
(* net/url: Query, Values.Get/Set/Encode, URL.String, on the characters    *)
(* that need no percent-escape plus the space ('+' in a query).            *)

RECURSIVE MapChars(_, _, _)
MapChars(s, from, to) ==
    IF s = "" THEN ""
    ELSE (IF Head(s) = from THEN to ELSE Head(s)) \o MapChars(Tail(s), from, to)

QueryUnescape(s) == MapChars(s, "+", " ")
QueryEscape(s) == MapChars(s, " ", "+")

AppendValue(m, k, v) ==
    [x \in (DOMAIN m) \cup {k} |->
        IF x = k THEN (IF k \in DOMAIN m THEN Append(m[k], v) ELSE <<v>>) ELSE m[x]]

\* url.ParseQuery: the pairs of "k=v&k2=v2", grouped by key in order
RECURSIVE ParseQuery(_, _)
ParseQuery(query, m) ==
    IF query = "" THEN m
    ELSE LET amp  == IndexOf(query, "&")
             key  == IF amp = 0 THEN query ELSE SubSeq(query, 1, amp - 1)
             rest == IF amp = 0 THEN "" ELSE SubSeq(query, amp + 1, Len(query))
             eq   == IndexOf(key, "=")
             k    == IF eq = 0 THEN key ELSE SubSeq(key, 1, eq - 1)
             v    == IF eq = 0 THEN "" ELSE SubSeq(key, eq + 1, Len(key))
         IN  IF key = "" THEN ParseQuery(rest, m)
             ELSE ParseQuery(rest, AppendValue(m, QueryUnescape(k), QueryUnescape(v)))

Query(uri) == ParseQuery(uri.RawQuery, <<>>)

ValuesGet(m, k) == IF k \in DOMAIN m /\ Len(m[k]) > 0 THEN m[k][1] ELSE ""

ValuesSet(m, k, v) == [x \in (DOMAIN m) \cup {k} |-> IF x = k THEN <<v>> ELSE m[x]]

SortedKeys(m) == SortStrings(CHOOSE p \in Perms(DOMAIN m) : TRUE)

EncodeKey(k, vs) == Join([i \in 1..Len(vs) |-> QueryEscape(k) \o "=" \o QueryEscape(vs[i])], "&")

\* url.Values.Encode: sorted by key
ValuesEncode(m) ==
    LET keys == SortedKeys(m)
        nonEmpty == SelectSeq(keys, LAMBDA k : Len(m[k]) > 0)
    IN  Join([i \in 1..Len(nonEmpty) |-> EncodeKey(nonEmpty[i], m[nonEmpty[i]])], "&")

\* url.URL.String: Path holds everything before the '?'
URLString(uri) == uri.Path \o (IF uri.RawQuery # "" THEN "?" \o uri.RawQuery ELSE "")

-----------------------------------------------------------------------------
(* io: a reader over data from offset off, which ends in the error err     *)
(* ("" for io.EOF, which ReadAll does not report).                         *)

NoBody == [present |-> FALSE, data |-> "", off |-> 0, err |-> ""]

Reader(data, err) == [present |-> TRUE, data |-> data, off |-> 0, err |-> err]

\* ioutil.ReadAll: what is left of the stream, and its error
ReadAll(b) == [buf |-> SubSeq(b.data, b.off + 1, Len(b.data)), err |-> b.err]

\* the reader once ReadAll has read it
Drained(b) == [b EXCEPT !.off = Len(b.data)]

\* ioutil.NopCloser(bytes.NewBuffer(buf))
RestoredBody(buf) == Reader(buf, "")

-----------------------------------------------------------------------------
(* CurlTransport, New and the options.                                     *)

CurlIds == {"T1", "T2"}

DefaultTransport == "DefaultTransport"

ZeroTransport == [SecretHeaders |-> <<>>, SecretParams |-> <<>>, Transport |-> ""]

Opt(kind, arg) == [kind |-> kind, arg |-> arg]

WithSecretHeaderUnchecked(secretHeader, ct) ==
    [ct EXCEPT !.SecretHeaders = Append(@, secretHeader)]

WithSecretHeader(secretHeader, ct) ==
    IF secretHeader # ""
    THEN [ct EXCEPT !.SecretHeaders = Append(@, secretHeader)]
    ELSE ct

WithSecretParam(secretParam, ct) ==
    IF secretParam # ""
    THEN [ct EXCEPT !.SecretParams = Append(@, secretParam)]
    ELSE ct

WithTransport(transport, ct) == [ct EXCEPT !.Transport = transport]

ApplyOption(o, ct) ==
    CASE o.kind = "WithSecretHeader" -> WithSecretHeader(o.arg, ct)
      [] o.kind = "WithSecretParam"  -> WithSecretParam(o.arg, ct)
      [] o.kind = "WithTransport"    -> WithTransport(o.arg, ct)

RECURSIVE ApplyOptions(_, _)
ApplyOptions(os, ct) ==
    IF Len(os) = 0 THEN ct ELSE ApplyOptions(Tail(os), ApplyOption(Head(os), ct))

New(os) ==
    ApplyOptions(os, [SecretHeaders |-> <<"authorization">>,
                      SecretParams  |-> <<"client_secret">>,
                      Transport     |-> ""])

transportAlwaysDefault(t) == DefaultTransport

transport(t) == IF t.Transport # "" THEN t.Transport ELSE DefaultTransport

-----------------------------------------------------------------------------
(* sanitizeURL and dumpRequestAsCurl.                                      *)

NilURL == [nil |-> TRUE, Path |-> "", RawQuery |-> ""]

URL(path, rawQuery) == [nil |-> FALSE, Path |-> path, RawQuery |-> rawQuery]

\* the loop over t.SecretParams: the RawQuery of newURL after it
RECURSIVE SanitizeLoop(_, _, _)
SanitizeLoop(secrets, params, rawQuery) ==
    IF Len(secrets) = 0 THEN rawQuery
    ELSE LET p == Head(secrets)
         IN  IF ValuesGet(params, p) # ""
             THEN LET set == ValuesSet(params, p, "REDACTED")
                  IN  SanitizeLoop(Tail(secrets), set, ValuesEncode(set))
             ELSE SanitizeLoop(Tail(secrets), params, rawQuery)

sanitizeURL(t, uri) ==
    IF uri.nil THEN ""
    ELSE URLString([uri EXCEPT !.RawQuery = SanitizeLoop(t.SecretParams, Query(uri), uri.RawQuery)])

RECURSIVE redactSecretCaseSensitive(_, _)
redactSecretCaseSensitive(secrets, key) ==
    IF Len(secrets) = 0 THEN <<>>
    ELSE IF key = Head(secrets) THEN <<"-H '" \o key \o ": <REDACTED>'">>
    ELSE redactSecretCaseSensitive(Tail(secrets), key)

\* the closure redactSecret, over what is left of t.SecretHeaders: the lines it
\* appends to headers (it returns true exactly when it appended one)
RECURSIVE redactSecret(_, _)
redactSecret(secrets, key) ==
    IF Len(secrets) = 0 THEN <<>>
    ELSE IF EqualFold(key, Head(secrets)) THEN <<"-H '" \o key \o ": <REDACTED>'">>
    ELSE redactSecret(Tail(secrets), key)

\* one pass of the loop over req.Header: the lines appended for key k
HeaderLines(t, k, v) ==
    LET redacted == redactSecret(t.SecretHeaders, k)
    IN  IF Len(redacted) > 0 THEN redacted
        ELSE <<"-H '" \o k \o ": " \o escapeSingleQuote(Join(v, ", ")) \o "'">>

\* the slice headers after the loop, the map ranged over in this order
RECURSIVE CollectHeaders(_, _, _)
CollectHeaders(t, header, order) ==
    IF Len(order) = 0 THEN <<>>
    ELSE HeaderLines(t, Head(order), header[Head(order)]) \o CollectHeaders(t, header, Tail(order))

LineSep == " \\\n  "

dumpRequestAsCurlNoRestore(t, r, order) ==
    LET lines == <<"curl -X " \o r.Method, sanitizeURL(t, r.URL)>>
                 \o SortStrings(CollectHeaders(t, r.Header, order))
        rd    == ReadAll(r.Body)
        all   == lines \o <<"-d '" \o escapeSingleQuote(rd.buf) \o "'">>
    IN  IF ~r.Body.present
        THEN [s |-> Join(lines, LineSep), err |-> "", lines |-> lines, Body |-> r.Body, t |-> t]
        ELSE IF rd.err # ""
        THEN [s |-> "", err |-> rd.err, lines |-> <<>>, Body |-> Drained(r.Body), t |-> t]
        ELSE [s |-> Join(all, LineSep), err |-> "", lines |-> all, Body |-> Drained(r.Body), t |-> t]

dumpRequestAsCurlRemembering(t, r, order) ==
    LET lines == <<"curl -X " \o r.Method, sanitizeURL(t, r.URL)>>
                 \o SortStrings(CollectHeaders(t, r.Header, order))
        rd    == ReadAll(r.Body)
        all   == lines \o <<"-d '" \o escapeSingleQuote(rd.buf) \o "'">>
        seen  == [t EXCEPT !.SecretHeaders = @ \o order]
    IN  IF ~r.Body.present
        THEN [s |-> Join(lines, LineSep), err |-> "", lines |-> lines, Body |-> r.Body, t |-> seen]
        ELSE IF rd.err # ""
        THEN [s |-> "", err |-> rd.err, lines |-> <<>>, Body |-> Drained(r.Body), t |-> seen]
        ELSE [s |-> Join(all, LineSep), err |-> "", lines |-> all, Body |-> RestoredBody(rd.buf), t |-> seen]

\* dumpRequestAsCurl: the string and error it returns, its slice lines, and
\* what it leaves behind: req.Body and the receiver *t
dumpRequestAsCurl(t, r, order) ==
    LET lines == <<"curl -X " \o r.Method, sanitizeURL(t, r.URL)>>
                 \o SortStrings(CollectHeaders(t, r.Header, order))
        rd    == ReadAll(r.Body)
        all   == lines \o <<"-d '" \o escapeSingleQuote(rd.buf) \o "'">>
    IN  IF ~r.Body.present
        THEN [s |-> Join(lines, LineSep), err |-> "", lines |-> lines, Body |-> r.Body, t |-> t]
        ELSE IF rd.err # ""
        THEN [s |-> "", err |-> rd.err, lines |-> <<>>, Body |-> Drained(r.Body), t |-> t]
        ELSE [s |-> Join(all, LineSep), err |-> "", lines |-> all, Body |-> RestoredBody(rd.buf), t |-> t]

-----------------------------------------------------------------------------
(* The inputs: options, requests, what the final RoundTripper answers.     *)

Request(m, u, h, b) == [Method |-> m, URL |-> u, Header |-> h, Body |-> b]

NoRequest == Request("", NilURL, <<>>, NoBody)

RECURSIVE SeqsUpTo(_, _)
SeqsUpTo(S, n) ==
    IF n = 0 THEN {<<>>}
    ELSE LET shorter == SeqsUpTo(S, n - 1)
         IN  shorter \cup {Append(q, x) : q \in shorter, x \in S}

AllOptions ==
    {Opt("WithSecretHeader", a) : a \in {"", "X-Key", "Authorization"}}
    \cup {Opt("WithSecretParam", a) : a \in {"", "id", "client_secret"}}
    \cup {Opt("WithTransport", a) : a \in {"", "T2", "custom"}}

RenderOptions ==
    {Opt("WithSecretHeader", "X-Key"), Opt("WithSecretParam", "id"), Opt("WithTransport", "T2")}

\* the option lists New is given for the outer transport T1
OuterOpts(m) ==
    CASE m = "new"    -> SeqsUpTo(AllOptions, MaxOpts)
      [] m = "render" -> SeqsUpTo(RenderOptions, MaxOpts)
      [] m = "serve"  -> {os \in {<<>>, <<Opt("WithSecretHeader", "X-Key"), Opt("WithTransport", "T2")>>} :
                             Len(os) <= MaxOpts}

\* the inner transport T2 never points back at T1
InnerOpts(m) ==
    IF m = "new" THEN {<<>>, <<Opt("WithTransport", "custom")>>} ELSE {<<>>}

PairPool == {"id=7", "client_secret=abc", "Client_Secret=abc", "client_secret=", "a+b=5"}

RawQueries == {Join(q, "&") : q \in SeqsUpTo(PairPool, MaxParams)}

URLPool == {NilURL} \cup {URL("/foo", q) : q \in RawQueries}

KeyPool == {"Accept", "AuthoRizaTion", "X-Key", "It's"}

ValuesPool == {<<"a'1", "a2">>, <<"Bearer X">>, <<>>}

HeaderPool ==
    UNION {[K -> ValuesPool] : K \in {S \in SUBSET KeyPool : Cardinality(S) <= MaxHeaders}}

BodyPool ==
    {NoBody, Reader("", ""), Reader("{\"l'a\"}", ""),
     Reader("", "custom error"), Reader("yo", "unexpected EOF")}

AuthHeader ==
    [k \in {"Authorization", "It's"} |-> IF k = "It's" THEN <<"a'1", "a2">> ELSE <<"Bearer X">>]

RenderPool ==
    {Request("GET", u, <<>>, NoBody) : u \in URLPool}
    \cup {Request("GET", URL("/foo", ""), h, NoBody) : h \in HeaderPool}
    \cup {Request(m, URL("/foo", "client_secret=abc"), AuthHeader, b) :
            m \in {"GET", "POST"}, b \in BodyPool}

ServePool ==
    {Request("GET", URL("/foo", "id=7&client_secret=abc"),
             [k \in {"Accept", "AuthoRizaTion"} |->
                 IF k = "Accept" THEN <<"a'1", "a2">> ELSE <<"Bearer X">>], NoBody),
     Request("POST", URL("/foo", ""), [k \in {"X-Key"} |-> <<"k1">>], Reader("{\"l'a\"}", "")),
     Request("GET", URL("/foo", ""), <<>>, Reader("", "custom error"))}

Pool(m) ==
    CASE m = "new"    -> {Request("POST", URL("/foo", "client_secret=abc"), AuthHeader, Reader("yo", ""))}
      [] m = "render" -> RenderPool
      [] m = "serve"  -> ServePool

Calls == 1..NumCalls

\* concurrent callers only when serving; otherwise one caller
CallsOf(m) == IF m = "serve" THEN Calls ELSE {1}

\* what a RoundTripper that is no CurlTransport may return
Outcomes == {[resp |-> "200 OK", err |-> ""], [resp |-> "", err |-> "dial tcp: refused"]}

-----------------------------------------------------------------------------
(* The state machine.                                                      *)

Frame(t) == [t |-> t, pc |-> "dump", s |-> "", lines |-> <<>>, resp |-> "", err |-> ""]

NoDelivery ==
    [via |-> "", Method |-> "", URL |-> NilURL, Header |-> <<>>, hasBody |-> FALSE,
     body |-> "", resp |-> "", err |-> ""]

Event(layer, t, kind, s, resp, err) ==
    [layer |-> layer, t |-> t, kind |-> kind, s |-> s, resp |-> resp, err |-> err]

Top(c) == stack[c][Len(stack[c])]

SetTop(c, f) == [stack EXCEPT ![c] = [@ EXCEPT ![Len(@)] = f]]

InitIn(m) ==
    /\ mode = m
    /\ \E outer \in OuterOpts(m), inner \in InnerOpts(m) :
           opts = [id \in CurlIds |-> IF id = "T1" THEN outer ELSE inner]
    /\ built = [id \in CurlIds |-> FALSE]
    /\ tr = [id \in CurlIds |-> ZeroTransport]
    /\ tr0 = [id \in CurlIds |-> ZeroTransport]
    /\ req = [c \in Calls |-> NoRequest]
    /\ req0 = [c \in Calls |-> NoRequest]
    /\ stack = [c \in Calls |-> <<>>]
    /\ result = [c \in Calls |-> [state |-> "idle", resp |-> "", err |-> ""]]
    /\ delivered = [c \in Calls |-> NoDelivery]
    /\ events = [c \in Calls |-> <<>>]
    /\ sink = <<>>

Init == InitIn("serve")

InitRender == InitIn("render")

InitNew == InitIn("new")

\* ct := New(opts...): the inner transport is built before the one that wraps it
Construct(id) ==
    /\ ~built[id]
    /\ id = "T1" => built["T2"]
    /\ built' = [built EXCEPT ![id] = TRUE]
    /\ tr' = [tr EXCEPT ![id] = New(opts[id])]
    /\ tr0' = [tr0 EXCEPT ![id] = New(opts[id])]
    /\ UNCHANGED <<mode, opts, req, req0, stack, result, delivered, events, sink>>

\* a caller passes request r to T1.RoundTrip
Call(c, r) ==
    /\ built["T1"]
    /\ result[c].state = "idle"
    /\ req' = [req EXCEPT ![c] = r]
    /\ req0' = [req0 EXCEPT ![c] = r]
    /\ stack' = [stack EXCEPT ![c] = <<Frame("T1")>>]
    /\ result' = [result EXCEPT ![c].state = "running"]
    /\ UNCHANGED <<mode, opts, built, tr, tr0, delivered, events, sink>>

AfterDumpIgnoringErr(err) == "log"

AfterDumpSkippingLog(err) == IF err # "" THEN "return" ELSE "send"

\* RoundTrip after dumpRequestAsCurl: return nil, err or go on to logger(s)
AfterDump(err) == IF err # "" THEN "return" ELSE "log"

\* s, err := t.dumpRequestAsCurl(req); if err != nil { return nil, err }
Dump(c) ==
    /\ Len(stack[c]) > 0
    /\ Top(c).pc = "dump"
    /\ \E order \in Perms(DOMAIN req[c].Header) :
         LET f == Top(c)
             d == dumpRequestAsCurl(tr[f.t], req[c], order)
         IN  /\ req' = [req EXCEPT ![c].Body = d.Body]
             /\ tr' = [tr EXCEPT ![f.t] = d.t]
             /\ stack' = SetTop(c, [f EXCEPT !.pc = AfterDump(d.err), !.s = d.s,
                                             !.lines = d.lines, !.resp = "", !.err = d.err])
             /\ events' = [events EXCEPT ![c] = Append(@,
                    Event(Len(stack[c]), f.t, IF d.err # "" THEN "renderfail" ELSE "render",
                          d.s, "", d.err))]
    /\ UNCHANGED <<mode, opts, built, tr0, req0, result, delivered, sink>>

\* logger(s)
Log(c) ==
    /\ Len(stack[c]) > 0
    /\ Top(c).pc = "log"
    /\ sink' = Append(sink, Top(c).s)
    /\ stack' = SetTop(c, [Top(c) EXCEPT !.pc = "send"])
    /\ events' = [events EXCEPT ![c] = Append(@,
           Event(Len(stack[c]), Top(c).t, "emit", Top(c).s, "", ""))]
    /\ UNCHANGED <<mode, opts, built, tr, tr0, req, req0, result, delivered>>

\* t.transport().RoundTrip(req), the delegate being another CurlTransport
SendCurl(c) ==
    /\ Len(stack[c]) > 0
    /\ Top(c).pc = "send"
    /\ transport(tr[Top(c).t]) \in CurlIds
    /\ stack' = [stack EXCEPT ![c] =
           Append([@ EXCEPT ![Len(@)] = [Top(c) EXCEPT !.pc = "wait"]],
                  Frame(transport(tr[Top(c).t])))]
    /\ events' = [events EXCEPT ![c] = Append(@,
           Event(Len(stack[c]), Top(c).t, "send", transport(tr[Top(c).t]), "", ""))]
    /\ UNCHANGED <<mode, opts, built, tr, tr0, req, req0, result, delivered, sink>>

\* t.transport().RoundTrip(req), the delegate being some other RoundTripper:
\* it reads the request, body included, and answers as it pleases
SendOther(c) ==
    /\ Len(stack[c]) > 0
    /\ Top(c).pc = "send"
    /\ transport(tr[Top(c).t]) \notin CurlIds
    /\ \E out \in Outcomes :
         /\ stack' = SetTop(c, [Top(c) EXCEPT !.pc = "return", !.resp = out.resp, !.err = out.err])
         /\ delivered' = [delivered EXCEPT ![c] =
                [via |-> transport(tr[Top(c).t]), Method |-> req[c].Method, URL |-> req[c].URL,
                 Header |-> req[c].Header, hasBody |-> req[c].Body.present,
                 body |-> ReadAll(req[c].Body).buf, resp |-> out.resp, err |-> out.err]]
    /\ req' = [req EXCEPT ![c].Body = IF @.present THEN Drained(@) ELSE @]
    /\ events' = [events EXCEPT ![c] = Append(@,
           Event(Len(stack[c]), Top(c).t, "send", transport(tr[Top(c).t]), "", ""))]
    /\ UNCHANGED <<mode, opts, built, tr, tr0, req0, result, sink>>

\* RoundTrip returns: to the RoundTrip that called it, which returns the same
\* (return t.transport().RoundTrip(req)), or to the caller
Return(c) ==
    /\ Len(stack[c]) > 0
    /\ Top(c).pc = "return"
    /\ events' = [events EXCEPT ![c] = Append(@,
           Event(Len(stack[c]), Top(c).t, "return", "", Top(c).resp, Top(c).err))]
    /\ IF Len(stack[c]) > 1
       THEN /\ stack' = [stack EXCEPT ![c] =
                   [i \in 1..(Len(@) - 1) |->
                       IF i = Len(@) - 1
                       THEN [@[i] EXCEPT !.pc = "return", !.resp = Top(c).resp, !.err = Top(c).err]
                       ELSE @[i]]]
            /\ UNCHANGED result
       ELSE /\ stack' = [stack EXCEPT ![c] = <<>>]
            /\ result' = [result EXCEPT ![c] =
                   [state |-> "done", resp |-> Top(c).resp, err |-> Top(c).err]]
    /\ UNCHANGED <<mode, opts, built, tr, tr0, req, req0, delivered, sink>>

Next ==
    \/ \E id \in CurlIds : Construct(id)
    \/ \E c \in CallsOf(mode) : \E r \in Pool(mode) : Call(c, r)
    \/ \E c \in Calls : Dump(c)
    \/ \E c \in Calls : Log(c)
    \/ \E c \in Calls : SendCurl(c)
    \/ \E c \in Calls : SendOther(c)
    \/ \E c \in Calls : Return(c)

\* concurrent calls through one CurlTransport
Spec == Init /\ [][Next]_vars

\* one call at a time, over the wide pool of requests
SpecRender == InitRender /\ [][Next]_vars

\* one call, over the wide pool of option lists
SpecNew == InitNew /\ [][Next]_vars

-----------------------------------------------------------------------------
(* What the properties below speak of.                                     *)

\* the frames of call c that hold a rendered command
RenderedFrames(c) == {i \in 1..Len(stack[c]) : Len(stack[c][i].lines) > 0}

EventsOf(c, kinds) == SelectSeq(events[c], LAMBDA e : e.kind \in kinds)

LayerEvents(c, l, kinds) == SelectSeq(events[c], LAMBDA e : e.layer = l /\ e.kind \in kinds)

Kinds(es) == [i \in 1..Len(es) |-> es[i].kind]

Layers(c) == {events[c][i].layer : i \in 1..Len(events[c])}

IsPrefix(a, b) == Len(a) <= Len(b) /\ a = SubSeq(b, 1, Len(a))

\* the bytes of the body as the caller passed it
OriginalBody(c) == ReadAll(req0[c].Body).buf

BodyFails(c) == req0[c].Body.present /\ req0[c].Body.err # ""

BodyGood(c) == req0[c].Body.present /\ req0[c].Body.err = ""

Started(c) == result[c].state # "idle"

HasPrefix(s, prefix) == Len(s) >= Len(prefix) /\ SubSeq(s, 1, Len(prefix)) = prefix

\* every single quote of arg follows a backslash
QuotesEscaped(arg) ==
    \A i \in 1..Len(arg) : CharAt(arg, i) = "'" => (i > 1 /\ CharAt(arg, i - 1) = "\\")

\* arg with each \' read back as '
RECURSIVE Unescaped(_)
Unescaped(arg) ==
    IF arg = "" THEN ""
    ELSE IF HasPrefix(arg, "\\'") THEN "'" \o Unescaped(SubSeq(arg, 3, Len(arg)))
    ELSE Head(arg) \o Unescaped(Tail(arg))

\* what a rendered -H or -d line wraps in its two quotes
Arg(line) == SubSeq(line, 5, Len(line) - 1)

HeaderLinesOf(f) == SelectSeq(f.lines, LAMBDA l : HasPrefix(l, "-H '"))

BodyLinesOf(f) == SelectSeq(f.lines, LAMBDA l : HasPrefix(l, "-d '"))

LinesForKey(f, k) == SelectSeq(f.lines, LAMBDA l : HasPrefix(l, "-H '" \o k \o ": "))

IsSecretHeader(t, k) ==
    \E i \in 1..Len(t.SecretHeaders) : EqualFold(k, t.SecretHeaders[i])

IsSecretParam(t, k) ==
    \E i \in 1..Len(t.SecretParams) : EqualFold(k, t.SecretParams[i])

-----------------------------------------------------------------------------
(* C1: a request whose body fails to drain is not dispatched.              *)

\* C1: for every request whose body stream returns an error while drained,
\* RoundTrip returns a nil response and that same error, and the delegate's
\* RoundTrip is never invoked for the request.
C1_BodyErrorNotDispatched ==
    \A c \in Calls :
        (Started(c) /\ BodyFails(c)) =>
            /\ delivered[c] = NoDelivery
            /\ Len(EventsOf(c, {"send", "emit"})) = 0
            /\ Len(stack[c]) <= 1
            /\ (Len(stack[c]) = 1 /\ Top(c).pc # "dump") =>
                   (Top(c).pc = "return" /\ Top(c).resp = "" /\ Top(c).err = req0[c].Body.err)
            /\ result[c].state = "done" =>
                   (result[c].resp = "" /\ result[c].err = req0[c].Body.err)

C1_Witness ==
    \E c \in Calls :
        /\ BodyFails(c)
        /\ req0[c].Body.data # ""
        /\ result[c].state = "done"
        /\ result[c].err = "unexpected EOF"

-----------------------------------------------------------------------------
(* C2: the body is readable again after rendering.                         *)

\* C2: for every request with a body that drains without error, after
\* dumpRequestAsCurl returns, reading the request's body yields the original
\* bytes; this holds after each of several renders in a chain of
\* CurlTransports, so the final delegate reads the original bytes.
C2_BodyRestored ==
    \A c \in Calls :
        BodyGood(c) =>
            /\ (Len(stack[c]) > 0 /\ delivered[c].via = "") =>
                   /\ req[c].Body.present
                   /\ ReadAll(req[c].Body) = [buf |-> OriginalBody(c), err |-> ""]
            /\ delivered[c].via # "" =>
                   (delivered[c].hasBody /\ delivered[c].body = OriginalBody(c))

C2_Witness ==
    \E c \in Calls :
        /\ BodyGood(c)
        /\ OriginalBody(c) = "{\"l'a\"}"
        /\ Len(EventsOf(c, {"render"})) = 2
        /\ delivered[c].via = DefaultTransport
        /\ delivered[c].body = "{\"l'a\"}"

-----------------------------------------------------------------------------
(* C3: secret query parameters.                                            *)

\* the query of a rendered URL line, the URL's path known
RenderedQuery(line, uri) ==
    IF Len(line) > Len(uri.Path) THEN SubSeq(line, Len(uri.Path) + 2, Len(line)) ELSE ""

HasNonEmpty(vs) == \E i \in 1..Len(vs) : vs[i] # ""

\* C3 as stated for one rendering: each parameter whose name matches an entry
\* of SecretParams without regard to case and has a non-empty value is
\* rendered REDACTED and its value is gone from the URL, every other parameter
\* keeps its values, and the query is encoded sorted by key.
C3_HoldsFor(t, uri, line) ==
    LET orig     == Query(uri)
        rawQuery == RenderedQuery(line, uri)
        rendered == ParseQuery(rawQuery, <<>>)
    IN  /\ DOMAIN rendered = DOMAIN orig
        /\ \A k \in DOMAIN orig :
               IF IsSecretParam(t, k) /\ HasNonEmpty(orig[k])
               THEN /\ rendered[k] = <<"REDACTED">>
                    /\ \A i \in 1..Len(orig[k]) :
                           orig[k][i] # "" => ~Contains(line, "=" \o QueryEscape(orig[k][i]))
               ELSE rendered[k] = orig[k]
        /\ rawQuery = ValuesEncode(rendered)

\* C3: for every URL and every policy, each query parameter whose name
\* case-insensitively matches an entry of SecretParams and that has a
\* non-empty value is rendered with the value REDACTED, every other parameter
\* keeps its original values, and the rendered query is encoded in
\* sorted-by-key order.
C3_SecretParamsRedacted ==
    \A c \in Calls : \A i \in RenderedFrames(c) :
        ~req0[c].URL.nil =>
            C3_HoldsFor(tr0[stack[c][i].t], req0[c].URL, stack[c][i].lines[2])

-----------------------------------------------------------------------------
(* C4: secret headers.                                                     *)

\* C4: for every header set and every policy, each header key that
\* case-insensitively matches an entry of SecretHeaders produces exactly one
\* rendered line, -H '<key>: <REDACTED>' with the key as the request spells
\* it, and none of the header's values appears in that line; a key matching
\* several entries of the policy still produces one line.
C4_SecretHeadersRedacted ==
    \A c \in Calls : \A i \in RenderedFrames(c) :
        LET f == stack[c][i]
        IN  \A k \in DOMAIN req0[c].Header :
                IsSecretHeader(tr0[f.t], k) =>
                    /\ LinesForKey(f, k) = <<"-H '" \o k \o ": <REDACTED>'">>
                    /\ \A j \in 1..Len(req0[c].Header[k]) :
                           /\ ~Contains(LinesForKey(f, k)[1], req0[c].Header[k][j])
                           /\ ~Contains(LinesForKey(f, k)[1], escapeSingleQuote(req0[c].Header[k][j]))

\* a key in mixed case, matched by the default entry, and a key matched by
\* two equal entries of the policy, both rendered
C4_Witness ==
    \E c \in Calls : \E i \in RenderedFrames(c) :
        LET f == stack[c][i]
        IN  /\ tr0[f.t].SecretHeaders = <<"authorization", "X-Key", "X-Key">>
            /\ DOMAIN req0[c].Header = {"AuthoRizaTion", "X-Key"}
            /\ HeaderLinesOf(f) = <<"-H 'AuthoRizaTion: <REDACTED>'", "-H 'X-Key: <REDACTED>'">>

-----------------------------------------------------------------------------
(* C5: render, then emit, then send.                                       *)

RECURSIVE EmitCount(_)
EmitCount(n) == IF n = 0 THEN 0 ELSE Len(EventsOf(n, {"emit"})) + EmitCount(n - 1)

\* the sink has been handed exactly the strings the calls emitted
SinkMatchesEmits ==
    /\ Len(sink) = EmitCount(NumCalls)
    /\ \A c \in Calls : \A i \in 1..Len(events[c]) :
           events[c][i].kind = "emit" => \E j \in 1..Len(sink) : sink[j] = events[c][i].s

\* C5: in every execution, for each RoundTrip whose render succeeds, the
\* render completes, the rendered string is handed to logger and the request
\* is sent to the delegate, once each and in that order; logger is not called
\* for a request after it was sent, nor at all when its render failed.
C5_RenderEmitSend ==
    /\ \A c \in Calls : \A l \in Layers(c) :
           LET steps == LayerEvents(c, l, {"render", "renderfail", "emit", "send"})
               done  == Len(LayerEvents(c, l, {"return"})) > 0
           IN  /\ \/ IsPrefix(Kinds(steps), <<"render", "emit", "send">>)
                  \/ Kinds(steps) = <<"renderfail">>
               /\ Len(steps) >= 2 => steps[2].s = steps[1].s
               /\ done => Kinds(steps) \in {<<"render", "emit", "send">>, <<"renderfail">>}
               /\ Len(LayerEvents(c, l, {"return"})) <= 1
    /\ SinkMatchesEmits

\* two calls under way at once, one rendered, logged and sent at both
\* layers, the other failed to render
C5_Witness ==
    \E c, d \in Calls :
        /\ Kinds(LayerEvents(c, 1, {"render", "renderfail", "emit", "send", "return"}))
               = <<"render", "emit", "send", "return">>
        /\ Kinds(LayerEvents(c, 2, {"render", "renderfail", "emit", "send", "return"}))
               = <<"render", "emit", "send", "return">>
        /\ Kinds(events[d]) = <<"renderfail", "return">>
        /\ Len(sink) = 2

-----------------------------------------------------------------------------
(* C6: the request and the answer pass through unchanged.                  *)

ConfiguredDelegate(t) == IF t.Transport # "" THEN t.Transport ELSE "DefaultTransport"

\* C6: for every request whose render succeeds, the delegate (the configured
\* transport, or the default one when none was configured) receives the same
\* method, the same URL with its secret query values unredacted, and the same
\* header keys and values as the caller supplied, and the caller receives
\* exactly the response and error the delegate returned.
C6_PassThrough ==
    \A c \in Calls :
        /\ \A i \in 1..Len(events[c]) :
               LET e == events[c][i]
               IN  /\ e.kind = "send" => e.s = ConfiguredDelegate(tr0[e.t])
                   /\ (e.kind = "return" /\ delivered[c].via # "") =>
                          (e.resp = delivered[c].resp /\ e.err = delivered[c].err)
        /\ delivered[c].via # "" =>
               /\ delivered[c].Method = req0[c].Method
               /\ delivered[c].URL = req0[c].URL
               /\ delivered[c].Header = req0[c].Header
               /\ delivered[c].hasBody = req0[c].Body.present
               /\ delivered[c].body = OriginalBody(c)
               /\ req[c].Method = req0[c].Method
               /\ req[c].URL = req0[c].URL
               /\ req[c].Header = req0[c].Header
        /\ (result[c].state = "done" /\ ~BodyFails(c)) =>
               /\ delivered[c].via # ""
               /\ result[c].resp = delivered[c].resp
               /\ result[c].err = delivered[c].err

\* a request with a secret query value and a secret header went through two
\* CurlTransports to the default transport, which failed, and the caller got
\* that failure
C6_Witness ==
    \E c \in Calls :
        /\ result[c] = [state |-> "done", resp |-> "", err |-> "dial tcp: refused"]
        /\ delivered[c].via = "DefaultTransport"
        /\ Len(EventsOf(c, {"send"})) = 2
        /\ delivered[c].URL.RawQuery = "client_secret=abc"
        /\ delivered[c].Header = AuthHeader
        /\ sink[1] = "curl -X POST \\\n  /foo?client_secret=REDACTED \\\n  -H 'Authorization: <REDACTED>' \\\n  -H 'It's: a\\'1, a2' \\\n  -d '{\"l\\'a\"}'"

-----------------------------------------------------------------------------
(* C7: what New builds from its options.                                   *)

ArgsOf(os, kind) ==
    LET picked == SelectSeq(os, LAMBDA o : o.kind = kind /\ o.arg # "")
    IN  [i \in 1..Len(picked) |-> picked[i].arg]

LastTransport(os) ==
    LET picked == SelectSeq(os, LAMBDA o : o.kind = "WithTransport")
    IN  IF Len(picked) = 0 THEN "" ELSE picked[Len(picked)].arg

\* C7: for every sequence of options passed to New, SecretHeaders is
\* ["authorization"] followed by every non-empty name given to
\* WithSecretHeader in option order, SecretParams is ["client_secret"]
\* followed by every non-empty name given to WithSecretParam in option order
\* (duplicates kept, empty names ignored), and Transport is the argument of
\* the last WithTransport option, nil if there was none.
C7_NewAppliesOptions ==
    \A id \in CurlIds :
        built[id] =>
            /\ tr[id].SecretHeaders = <<"authorization">> \o ArgsOf(opts[id], "WithSecretHeader")
            /\ tr[id].SecretParams = <<"client_secret">> \o ArgsOf(opts[id], "WithSecretParam")
            /\ tr[id].Transport = LastTransport(opts[id])

\* an empty name ignored and a duplicate kept
C7_Witness ==
    /\ built["T1"]
    /\ opts["T1"] = <<Opt("WithSecretHeader", ""), Opt("WithSecretHeader", "Authorization")>>
    /\ tr["T1"].SecretHeaders = <<"authorization", "Authorization">>

-----------------------------------------------------------------------------
(* C8: single quotes.                                                      *)

\* C8 as stated: in every rendered -H line and in the -d line, every single
\* quote that comes from a header key, a header value or the body follows a
\* backslash, so that the only bare single quotes are the two that wrap the
\* line's argument.
C8_AllQuotesEscaped ==
    \A c \in Calls : \A i \in RenderedFrames(c) :
        LET f == stack[c][i]
        IN  /\ \A j \in 1..Len(HeaderLinesOf(f)) : QuotesEscaped(Arg(HeaderLinesOf(f)[j]))
            /\ \A j \in 1..Len(BodyLinesOf(f)) : QuotesEscaped(Arg(BodyLinesOf(f)[j]))

\* C8, amended: every single quote that comes from a header value or from the
\* body follows a backslash in the rendered line, and the escaped text reads
\* back as the values joined by ", " (as the body); a header key is copied
\* into its line as it is, single quotes included.
C8_ValueAndBodyQuotesEscaped ==
    \A c \in Calls : \A i \in RenderedFrames(c) :
        LET f == stack[c][i]
        IN  /\ \A k \in DOMAIN req0[c].Header :
                   LET mine   == LinesForKey(f, k)
                       prefix == "-H '" \o k \o ": "
                       value  == SubSeq(mine[1], Len(prefix) + 1, Len(mine[1]) - 1)
                   IN  /\ Len(mine) = 1
                       /\ ~IsSecretHeader(tr0[f.t], k) =>
                              /\ QuotesEscaped(value)
                              /\ Unescaped(value) = Join(req0[c].Header[k], ", ")
            /\ IF req0[c].Body.present
               THEN /\ Len(BodyLinesOf(f)) = 1
                    /\ f.lines[Len(f.lines)] = BodyLinesOf(f)[1]
                    /\ QuotesEscaped(Arg(BodyLinesOf(f)[1]))
                    /\ Unescaped(Arg(BodyLinesOf(f)[1])) = OriginalBody(c)
               ELSE Len(BodyLinesOf(f)) = 0

\* a header value, a header key and a body with a single quote, rendered
C8_Witness ==
    \E c \in Calls : \E i \in RenderedFrames(c) :
        /\ HeaderLinesOf(stack[c][i]) = <<"-H 'Authorization: <REDACTED>'", "-H 'It's: a\\'1, a2'">>
        /\ BodyLinesOf(stack[c][i]) = <<"-d '{\"l\\'a\"}'">>

-----------------------------------------------------------------------------
(* C9: the rendering is determined by the request and the policy.          *)

Ascending(ls) == \A j \in 1..(Len(ls) - 1) : StrLess(ls[j], ls[j + 1])

\* C9: for a fixed request and policy the returned string is the same for
\* every order in which the header map may be ranged over, the -H lines come
\* in ascending lexicographic order of their rendered text between the URL
\* line and the -d line, if any, and rendering the same request again returns
\* a byte-identical string.
C9_Deterministic ==
    \A c \in Calls :
        /\ \A i \in 1..Len(events[c]) :
               LET e == events[c][i]
               IN  e.kind = "render" =>
                       /\ \A order \in Perms(DOMAIN req0[c].Header) :
                              dumpRequestAsCurl(tr0[e.t], req0[c], order).s = e.s
                       /\ \A j \in 1..Len(events[c]) :
                              (/\ events[c][j].kind = "render"
                               /\ tr0[events[c][j].t].SecretHeaders = tr0[e.t].SecretHeaders
                               /\ tr0[events[c][j].t].SecretParams = tr0[e.t].SecretParams)
                              => events[c][j].s = e.s
        /\ \A i \in RenderedFrames(c) :
               LET f == stack[c][i]
                   n == Cardinality(DOMAIN req0[c].Header)
               IN  /\ f.s = Join(f.lines, LineSep)
                   /\ Len(f.lines) = 2 + n + (IF req0[c].Body.present THEN 1 ELSE 0)
                   /\ f.lines[1] = "curl -X " \o req0[c].Method
                   /\ SubSeq(f.lines, 3, 2 + n) = HeaderLinesOf(f)
                   /\ Ascending(HeaderLinesOf(f))

\* a request with two headers and a body, rendered by two CurlTransports of
\* the same policy: the same string twice
C9_Witness ==
    \E c \in Calls :
        LET r == EventsOf(c, {"render"})
        IN  /\ Len(r) = 2
            /\ r[1].t = "T1" /\ r[2].t = "T2"
            /\ tr0["T1"].SecretHeaders = tr0["T2"].SecretHeaders
            /\ tr0["T1"].SecretParams = tr0["T2"].SecretParams
            /\ r[1].s = r[2].s
            /\ Cardinality(DOMAIN req0[c].Header) = 2
            /\ BodyGood(c) /\ OriginalBody(c) # ""

-----------------------------------------------------------------------------
(* C10: concurrent calls through one CurlTransport.                        *)

\* what T.RoundTrip emits for request r when it runs alone
AloneString(id, r) ==
    dumpRequestAsCurl(New(opts[id]), r, CHOOSE order \in Perms(DOMAIN r.Header) : TRUE).s

\* C10: for any interleaving of concurrent RoundTrip calls on one
\* CurlTransport for distinct requests, its SecretHeaders, SecretParams and
\* Transport stay equal to their values at construction, and each call emits
\* the string and forwards the body bytes that it would have had it run alone.
C10_ConcurrentCallsIndependent ==
    /\ \A id \in CurlIds :
           built[id] => (tr[id] = tr0[id] /\ tr[id] = New(opts[id]))
    /\ \A c \in Calls : \A i \in 1..Len(events[c]) :
           events[c][i].kind = "emit" =>
               events[c][i].s = AloneString(events[c][i].t, req0[c])
    /\ \A c \in Calls :
           delivered[c].via # "" =>
               (delivered[c].hasBody = req0[c].Body.present /\ delivered[c].body = OriginalBody(c))
    /\ SinkMatchesEmits

\* two calls for different requests, interleaved step by step through two
\* CurlTransports, both answered
C10_Witness ==
    \E c, d \in Calls :
        LET ec == EventsOf(c, {"emit"})
            ed == EventsOf(d, {"emit"})
        IN  /\ c # d
            /\ req0[c] # req0[d]
            /\ BodyGood(d)
            /\ result[c].state = "done" /\ result[d].state = "done"
            /\ Len(ec) = 2 /\ Len(ed) = 2
            /\ sink = <<ec[1].s, ed[1].s, ec[2].s, ed[2].s>>
            /\ delivered[d].body = "{\"l'a\"}"

====
